---- MODULE Spec2Model ----
(***************************************************************************)
(* Cardboard Slicer (assets/js/cardboard-slicer.jsx, here                  *)
(* src/unnamed/part_000): STL triangles are normalized to a target height, *)
(* cut by horizontal planes (intersectTriangleZ), the cut segments are     *)
(* chained into paths (connectSegments), and the React component App       *)
(* drives one timer step per layer (generateSlices / processLayer).        *)
(*                                                                         *)
(* Numbers.  JavaScript numbers are modelled in fixed point: every length  *)
(* is an integer count of ticks and `res` is the number of ticks in one    *)
(* unit of the program's numbers, so the program's 1e-5 is res/100000      *)
(* ticks and a squared distance of 1e-5 is res*res/100000 square ticks.    *)
(* Divisions round down to the tick; the input sets of the pure-function   *)
(* specifications are chosen so that every division is exact.              *)
(* The three non-finite numbers of JavaScript (Infinity, -Infinity, NaN)   *)
(* are three integers outside the range of every finite number of the      *)
(* model; they arise only from a division by zero and from the bounding    *)
(* box of an empty triangle list.                                          *)
(***************************************************************************)
EXTENDS Integers, Sequences, FiniteSets, TLC

VARIABLES
  res,            \* ticks per unit of the fixed-point numbers (never changes)
  file,           \* useState(null), line 171: name of the chosen file, Null = <<>>
  status,         \* useState("Idle..."), line 172
  progress,       \* useState(0), line 173: percentage, rounded down
  modelData,      \* useState(null), line 174: <<>> or <<[rawTriangles, triangles, width, length, height]>>
  slices,         \* useState([]), line 175: the published slice result
  targetHeight,   \* useState(100), line 178
  sliceMode,      \* useState('thickness'), line 179
  layerThickness, \* useState(4), line 180
  layerCount,     \* useState(25), line 181
  readers,        \* FileReaders whose onload is pending, each with the closure of its handler
  runs,           \* generateSlices closures whose processLayer timer is pending
  call,           \* the pure function applied by a pure-function specification, with its arguments
  ret             \* <<>> until that function has returned, then <<its result>>

sessionVars == <<file, status, progress, modelData, slices, targetHeight,
                 sliceMode, layerThickness, layerCount, readers, runs>>
vars == <<res, file, status, progress, modelData, slices, targetHeight,
          sliceMode, layerThickness, layerCount, readers, runs, call, ret>>

Null == <<>>

\* ---------------------------------------------------------------- bounds
MaxZ == 2          \* vertex and plane heights of the intersect inputs are 0..MaxZ
MaxXY == 1         \* x, y of the intersect inputs are ZStep * (0..MaxXY)
MaxSegs == 3       \* longest arbitrary segment list given to connectSegments
MaxCycle == 4      \* longest cycle of segments given to connectSegments
MaxLayers == 2     \* generateSlices is followed only for runs of at most MaxLayers layers
MaxModeHeight == 100  \* heights of the settings given to the slicing plan alone
MaxPending == 2    \* callbacks waiting in the event loop: reader.onload and processLayer timers
MaxTris == 2       \* records of the binary buffers given to parseSTLBinary alone
MaxShift == 1      \* the raw cube stands at 0..MaxShift units from the origin on each axis

\* ---------------------------------------------------------------- helpers
Abs(n) == IF n < 0 THEN 0 - n ELSE n

Range(s) == {s[i] : i \in 1..Len(s)}

Min(S) == CHOOSE m \in S : \A n \in S : m <= n

Max(S) == CHOOSE m \in S : \A n \in S : n <= m

\* q / d rounded up, for d > 0
CeilDiv(q, d) == (q + d - 1) \div d

\* Array.prototype.splice(i, 1): the array without its i-th element (1-based here)
RemoveAt(s, i) == [j \in 1..(Len(s) - 1) |-> IF j < i THEN s[j] ELSE s[j + 1]]

RECURSIVE Factorial(_)
Factorial(n) == IF n <= 1 THEN 1 ELSE n * Factorial(n - 1)

RECURSIVE Concat(_)
\* the concatenation of a sequence of sequences
Concat(ss) == IF ss = <<>> THEN <<>> ELSE ss[1] \o Concat(Tail(ss))

Count(s, e) == Cardinality({i \in 1..Len(s) : s[i] = e})

\* ---------------------------------------------------------------- non-finite numbers
\* Infinity (lines 70-72, and the quotient of a positive number by zero)
Infinity == 1000000000

NegInfinity == 0 - Infinity

NaN == Infinity + 1

\* a / b for finite a and b >= 0, rounded down; x / 0 is Infinity, -Infinity or NaN
Quot(a, b) ==
  IF b = 0 THEN (IF a = 0 THEN NaN ELSE IF a > 0 THEN Infinity ELSE NegInfinity)
  ELSE a \div b

\* a * (height / rawHeight) for finite a, height >= 0 and rawHeight >= 0: with
\* rawHeight = 0 the factor is Infinity (or NaN when height is 0 too), and
\* 0 * Infinity is NaN
TimesScale(a, height, rawHeight) ==
  IF rawHeight = 0
  THEN (IF a = 0 \/ height = 0 THEN NaN ELSE IF a > 0 THEN Infinity ELSE NegInfinity)
  ELSE (a * height) \div rawHeight

\* ---------------------------------------------------------------- STL parsing
\* An ArrayBuffer is modelled by what the parsers read of it:
\*   byteLength    its length in bytes
\*   asciiHeader   do its first 200 bytes, decoded, hold "solid" and "facet normal"
\*   numTriangles  the little-endian uint32 at offset 80 (when byteLength >= 84)
\*   records       the 50-byte records from offset 84 on, each as the three
\*                 vertices its floats decode to (records[i] is there whenever
\*                 some byte of the i-th record is)
\*   vertexLines   the numbers of its lines that start with "vertex", in order
\* A call returns [threw |-> FALSE, triangles |-> its result], or
\* [threw |-> TRUE, triangles |-> <<>>] when it throws and so returns nothing.
Returned(triangles) == [threw |-> FALSE, triangles |-> triangles]

Thrown == [threw |-> TRUE, triangles |-> <<>>]

\* DataView.prototype.getUint32(byteOffset, true) at the one offset the code
\* reads: a RangeError (<<>>) when the four bytes are not all inside the buffer
getUint32(buffer, byteOffset) ==
  IF byteOffset + 4 > buffer.byteLength THEN <<>> ELSE <<buffer.numTriangles>>

\* DataView.prototype.getFloat32(byteOffset, true) at an offset of a vertex
\* coordinate: a RangeError (<<>>) when the four bytes are not all inside the
\* buffer, else the float stored there
getFloat32(buffer, byteOffset) ==
  IF byteOffset + 4 > buffer.byteLength THEN <<>>
  ELSE LET i == (byteOffset - 84) \div 50
           rel == ((byteOffset - 84) % 50) - 12
           v == buffer.records[i + 1][(rel \div 12) + 1]
       IN  <<CASE (rel % 12) \div 4 = 0 -> v.x
               [] (rel % 12) \div 4 = 1 -> v.y
               [] OTHER -> v.z>>

RECURSIVE ReadTriangles(_, _, _, _)
\* lines 36-55: the loop from its i-th round on; each round reads nine floats
\* at offset + 12 .. offset + 44 and the first read that throws ends the call
ReadTriangles(buffer, i, numTriangles, triangles) ==
  IF i >= numTriangles THEN Returned(triangles)
  ELSE LET offset == 84 + 50 * i
           f == [k \in 1..9 |-> getFloat32(buffer, offset + 12 + 4 * (k - 1))]
       IN  IF \E k \in 1..9 : f[k] = <<>> THEN Thrown
           ELSE ReadTriangles(buffer, i + 1, numTriangles,
                  Append(triangles,
                         <<[x |-> f[1][1], y |-> f[2][1], z |-> f[3][1]],
                           [x |-> f[4][1], y |-> f[5][1], z |-> f[6][1]],
                           [x |-> f[7][1], y |-> f[8][1], z |-> f[9][1]]>>))

\* lines 31-57
parseSTLBinary(buffer) ==
  LET numTriangles == getUint32(buffer, 80)
  IN  IF numTriangles = <<>> THEN Thrown
      ELSE ReadTriangles(buffer, 0, numTriangles[1], <<>>)

\* lines 9-29: every three vertex lines make a triangle, and one or two
\* vertices left over at the end are dropped
parseSTLAscii(vertexLines) ==
  Returned([i \in 1..(Len(vertexLines) \div 3) |->
              <<vertexLines[3 * i - 2], vertexLines[3 * i - 1], vertexLines[3 * i]>>])

\* lines 59-66
parseSTL(buffer) ==
  IF buffer.asciiHeader THEN parseSTLAscii(buffer.vertexLines)
  ELSE parseSTLBinary(buffer)

\* the buffer of a binary file of byteLength bytes that declares numTriangles
\* triangles and holds (the bytes it has of) the records of `triangles`
BinarySTL(triangles, numTriangles, byteLength) ==
  [byteLength |-> byteLength, asciiHeader |-> FALSE, numTriangles |-> numTriangles,
   records |-> triangles, vertexLines |-> <<>>]

\* the buffer of a text file with one facet for each of `triangles`
AsciiSTL(triangles) ==
  [byteLength |-> 200 * Len(triangles), asciiHeader |-> TRUE, numTriangles |-> 0,
   records |-> <<>>,
   vertexLines |-> [k \in 1..(3 * Len(triangles)) |->
                      triangles[((k - 1) \div 3) + 1][((k - 1) % 3) + 1]]]

\* ---------------------------------------------------------------- tolerances
\* EPSILON = 1e-5 (line 132) is 1 / EPSILON_INV
EPSILON_INV == 100000

\* the literal 1e-5 of line 125 is 1 / GRAZE_INV
GRAZE_INV == 100000

\* d < 1e-5 for a squared distance d in square ticks: d / res^2 < 1 / EPSILON_INV
LessThanEpsilon(d) == d < CeilDiv(res * res, EPSILON_INV)

\* d < 1e-5 for a length d in ticks: d / res < 1 / GRAZE_INV
LessThanGraze(d) == d < CeilDiv(res, GRAZE_INV)

\* ---------------------------------------------------------------- intersectTriangleZ
\* [v1, v2, v3].sort((a, b) => a.z - b.z): Array.prototype.sort is stable, so
\* vertices of equal z keep their order
SortByZ(v1, v2, v3) ==
  LET Insert(s, v) ==
        LET k == Cardinality({i \in 1..Len(s) : s[i].z <= v.z})
        IN  SubSeq(s, 1, k) \o <<v>> \o SubSeq(s, k + 1, Len(s))
  IN  Insert(Insert(<<v1>>, v2), v3)

\* line 114 with pB for pA
interpolateMut(pA, pB, zTarget) ==
  IF pB.z = pA.z THEN [x |-> pB.x, y |-> pB.y]
  ELSE [x |-> pA.x + ((zTarget - pA.z) * (pB.x - pA.x)) \div (pB.z - pA.z),
        y |-> pA.y + ((zTarget - pA.z) * (pB.y - pA.y)) \div (pB.z - pA.z)]

\* lines 113-120
interpolate(pA, pB, zTarget) ==
  IF pB.z = pA.z THEN [x |-> pA.x, y |-> pA.y]
  ELSE [x |-> pA.x + ((zTarget - pA.z) * (pB.x - pA.x)) \div (pB.z - pA.z),
        y |-> pA.y + ((zTarget - pA.z) * (pB.y - pA.y)) \div (pB.z - pA.z)]

\* line 123: the second crossing point, on the lower or on the upper short edge
SecondEdge(pts, z) ==
  IF z <= pts[2].z THEN interpolate(pts[1], pts[2], z) ELSE interpolate(pts[2], pts[3], z)

\* line 125 with || for &&
IsGrazeMut(p1, p2) ==
  LessThanGraze(Abs(p1.x - p2.x)) \/ LessThanGraze(Abs(p1.y - p2.y))

\* line 125: the plane only grazes the triangle
IsGraze(p1, p2) ==
  LessThanGraze(Abs(p1.x - p2.x)) /\ LessThanGraze(Abs(p1.y - p2.y))

\* null is <<>>, a segment is <<[p1, p2]>>
intersectTriangleZ(v1, v2, v3, z) ==
  LET pts == SortByZ(v1, v2, v3)
  IN  IF z < pts[1].z \/ z > pts[3].z THEN Null
      ELSE IF z = pts[1].z /\ z = pts[3].z THEN Null
      ELSE LET p1 == interpolate(pts[1], pts[3], z)
               p2 == SecondEdge(pts, z)
           IN  IF IsGraze(p1, p2)
               THEN Null
               ELSE <<[p1 |-> p1, p2 |-> p2]>>

\* ---------------------------------------------------------------- connectSegments
getDistSq(pA, pB) == (pA.x - pB.x) * (pA.x - pB.x) + (pA.y - pB.y) * (pA.y - pB.y)

Near(pA, pB) == LessThanEpsilon(getDistSq(pA, pB))

\* lines 148-155: does the scan stop at this segment
Matches(seg, head, tail) ==
  \/ Near(seg.p1, tail)
  \/ Near(seg.p2, tail)
  \/ Near(seg.p1, head)
  \/ Near(seg.p2, head)

\* lines 153, 155 with push for unshift
ExtendMut(currentPath, seg) ==
  LET tail == currentPath[Len(currentPath)]
  IN  IF Near(seg.p1, tail) THEN Append(currentPath, seg.p2)
      ELSE IF Near(seg.p2, tail) THEN Append(currentPath, seg.p1)
      ELSE IF Near(seg.p1, currentPath[1]) THEN Append(currentPath, seg.p2)
      ELSE Append(currentPath, seg.p1)

\* lines 148-155: the path extended by a segment that matches
Extend(currentPath, seg) ==
  LET head == currentPath[1]
      tail == currentPath[Len(currentPath)]
  IN  IF Near(seg.p1, tail) THEN Append(currentPath, seg.p2)
      ELSE IF Near(seg.p2, tail) THEN Append(currentPath, seg.p1)
      ELSE IF Near(seg.p1, head) THEN <<seg.p2>> \o currentPath
      ELSE <<seg.p1>> \o currentPath

\* remaining.splice(i): without its second argument splice drops the tail too
TakeMut(remaining, i) == SubSeq(remaining, 1, i - 1)

\* remaining.splice(i, 1)
Take(remaining, i) == RemoveAt(remaining, i)

RECURSIVE Grow(_)
\* The loop `while (changed)` of lines 140-158 on st = [path, remaining, used]:
\* path is currentPath, used lists the segments this path has consumed (it is
\* not a variable of the code: it records each pop and splice).
Grow(st) ==
  LET head == st.path[1]
      tail == st.path[Len(st.path)]
      hits == {i \in 1..Len(st.remaining) : Matches(st.remaining[i], head, tail)}
  IN  IF hits = {} THEN st
      ELSE LET i == Min(hits)
           IN  Grow([path |-> Extend(st.path, st.remaining[i]),
                     remaining |-> Take(st.remaining, i),
                     used |-> Append(st.used, st.remaining[i])])

RECURSIVE Chains(_)
\* The loop `while (remaining.length > 0)` of lines 135-165, up to line 158 of
\* each round: the paths before they are closed, each with the segments it consumed
Chains(remaining) ==
  IF remaining = <<>> THEN <<>>
  ELSE LET currentSeg == remaining[Len(remaining)]
           st == Grow([path |-> <<currentSeg.p1, currentSeg.p2>>,
                       remaining |-> SubSeq(remaining, 1, Len(remaining) - 1),
                       used |-> <<currentSeg>>])
       IN  <<[path |-> st.path, used |-> st.used]>> \o Chains(st.remaining)

\* line 161 without the test of the length
IsLoopMut(currentPath) ==
  Near(currentPath[1], currentPath[Len(currentPath)])

\* line 161: is the finished path a closed loop
IsLoop(currentPath) ==
  Len(currentPath) > 2 /\ Near(currentPath[1], currentPath[Len(currentPath)])

\* lines 161-163
ClosePath(currentPath) ==
  IF IsLoop(currentPath) THEN SubSeq(currentPath, 1, Len(currentPath) - 1) ELSE currentPath

connectSegments(segments) ==
  LET chains == Chains(segments)
  IN  [i \in 1..Len(chains) |-> ClosePath(chains[i].path)]

\* ---------------------------------------------------------------- normalizeTriangles
Vertices(triangles) == {triangles[i][j] : i \in 1..Len(triangles), j \in 1..3}

\* line 96 with cZ = 0
ScaleZMut(vz, minZ, rawHeight, height) == TimesScale(vz, height, rawHeight)

\* (v.z - cZ) * scale with scale = targetHeight / rawHeight (line 86), and cZ = minZ
ScaleZ(vz, minZ, rawHeight, height) == TimesScale(vz - minZ, height, rawHeight)

\* line 94 with cX = minX
ScaleXYMut(vx, minX, maxX, rawHeight, height) ==
  TimesScale(vx - minX, height, rawHeight)

\* (v.x - cX) * scale with cX = (minX + maxX) / 2 (lines 88, 94)
ScaleXY(vx, minX, maxX, rawHeight, height) ==
  TimesScale(2 * vx - (minX + maxX), height, 2 * rawHeight)

\* The bounding box of an empty list is (Infinity, -Infinity) on every axis
\* (lines 70-72): rawHeight is -Infinity, scale is -0, and width and length are
\* -Infinity * -0 = NaN. Nothing in lines 69-106 throws.
normalizeTriangles(triangles, height) ==
  IF triangles = <<>>
  THEN [triangles |-> <<>>, width |-> NaN, length |-> NaN, height |-> height]
  ELSE
  LET vs == Vertices(triangles)
      minZ == Min({v.z : v \in vs})
      maxZ == Max({v.z : v \in vs})
      minX == Min({v.x : v \in vs})
      maxX == Max({v.x : v \in vs})
      minY == Min({v.y : v \in vs})
      maxY == Max({v.y : v \in vs})
      rawHeight == maxZ - minZ
      Scaled(v) == [x |-> ScaleXY(v.x, minX, maxX, rawHeight, height),
                    y |-> ScaleXY(v.y, minY, maxY, rawHeight, height),
                    z |-> ScaleZ(v.z, minZ, rawHeight, height)]
  IN  [triangles |-> [i \in 1..Len(triangles) |->
                        [j \in 1..3 |-> Scaled(triangles[i][j])]],
       width |-> TimesScale(maxX - minX, height, rawHeight),
       length |-> TimesScale(maxY - minY, height, rawHeight),
       height |-> height]

\* { rawTriangles, ...normalized } (lines 202, 216)
ModelOf(rawTriangles, height) ==
  LET n == normalizeTriangles(rawTriangles, height)
  IN  [rawTriangles |-> rawTriangles, triangles |-> n.triangles,
       width |-> n.width, length |-> n.length, height |-> n.height]

\* ---------------------------------------------------------------- one layer
\* lines 243-247: the non-null intersections, in triangle order
SegmentsAt(triangles, z) ==
  Concat([i \in 1..Len(triangles) |->
            intersectTriangleZ(triangles[i][1], triangles[i][2], triangles[i][3], z)])

\* lines 242-249
LayerAt(triangles, z) == connectSegments(SegmentsAt(triangles, z))

\* ---------------------------------------------------------------- settings
\* line 225 without the count mode
ActualThicknessMut(mode, height, thickness, count) == thickness

\* line 225
ActualThickness(mode, height, thickness, count) ==
  IF mode = "thickness" THEN thickness ELSE Quot(height, count)

\* line 226: Math.floor(targetHeight / 0) is Infinity
ActualCount(mode, height, thickness, count) ==
  IF mode = "count" THEN count
  ELSE Quot(height, ActualThickness(mode, height, thickness, count))

\* line 232
ZStart(actualThickness) ==
  IF actualThickness = Infinity THEN Infinity ELSE actualThickness \div 2

\* line 242
LayerZ(actualThickness, k) == ZStart(actualThickness) + k * actualThickness

\* line 253: (currentLayer / actualCount) * 100, rounded down
Percent(currentLayer, actualCount) == (currentLayer * 100) \div actualCount

\* line 694: disabled={!modelData || progress > 0 && progress < 100}
GenerateDisabled == modelData = Null \/ (progress > 0 /\ progress < 100)

\* ---------------------------------------------------------------- inputs of the session
V(x, y, z) == [x |-> x, y |-> y, z |-> z]

\* a tetrahedron standing on z = 0
Tetra == << <<V(0, 0, 0), V(4, 0, 0), V(0, 4, 0)>>,
            <<V(0, 0, 0), V(4, 0, 0), V(0, 0, 2)>>,
            <<V(4, 0, 0), V(0, 4, 0), V(0, 0, 2)>>,
            <<V(0, 4, 0), V(0, 0, 0), V(0, 0, 2)>> >>

\* two triangles of an open strip
Strip == << <<V(0, 0, 1), V(2, 0, 1), V(0, 0, 3)>>,
            <<V(2, 0, 1), V(2, 2, 3), V(0, 0, 3)>> >>

\* the files the user can choose, each with the buffer the FileReader gives:
\* a binary file, a text file, and the binary file cut off inside its third record
Files == {[name |-> "tetra.stl", buffer |-> BinarySTL(Tetra, 4, 284)],
          [name |-> "strip.stl", buffer |-> AsciiSTL(Strip)],
          [name |-> "cut.stl", buffer |-> BinarySTL(Tetra, 4, 200)]}

Heights == {100, 8}
Thicknesses == {4, 200}
Counts == {25, 1}
Modes == {"thickness", "count"}

\* ---------------------------------------------------------------- the component App
\* lines 171-181
InitSession ==
  /\ file = Null
  /\ status = "Idle. Upload an STL file to begin."
  /\ progress = 0
  /\ modelData = Null
  /\ slices = <<>>
  /\ targetHeight = 100
  /\ sliceMode = "thickness"
  /\ layerThickness = 4
  /\ layerCount = 25
  /\ readers = <<>>
  /\ runs = <<>>

\* lines 191-197, 210: the handler up to reader.readAsArrayBuffer; onload closes
\* over the state of the render the handler belongs to, of which it reads
\* targetHeight; `file` is the file state of that render, the one from before
\* setFile (line 194)
handleFileUpload(f) ==
  /\ Len(readers) + Len(runs) < MaxPending
  /\ file' = <<f.name>>
  /\ status' = "Parsing STL file..."
  /\ readers' = Append(readers, [buffer |-> f.buffer,
                                 targetHeight |-> targetHeight,
                                 file |-> file])
  /\ UNCHANGED <<res, progress, modelData, slices, targetHeight, sliceMode,
                 layerThickness, layerCount, runs, call, ret>>

\* the model that onload stores when parseSTL has returned (lines 200-202)
LoadedModel(reader) == ModelOf(parseSTL(reader.buffer).triangles, reader.targetHeight)

\* lines 198-209: reader.onload of the i-th pending reader; parseSTL may throw,
\* normalizeTriangles and the setters cannot
onload(i) ==
  /\ i \in 1..Len(readers)
  /\ IF parseSTL(readers[i].buffer).threw
     THEN /\ status' = "Error parsing STL. Please ensure it's a valid 3D model."
          /\ UNCHANGED <<modelData, slices>>
     ELSE /\ modelData' = <<LoadedModel(readers[i])>>
          /\ status' = "STL Loaded. Ready to slice."
          /\ slices' = <<>>
  /\ readers' = RemoveAt(readers, i)
  /\ UNCHANGED <<res, file, progress, targetHeight, sliceMode, layerThickness,
                 layerCount, runs, call, ret>>

\* line 647 and the effect of lines 214-219, which runs when the render that
\* follows has a new targetHeight; modelData.rawTriangles is an array, and every
\* array is truthy
setTargetHeight(h) ==
  /\ h # targetHeight
  /\ targetHeight' = h
  /\ IF modelData # Null
     THEN /\ modelData' = <<ModelOf(modelData[1].rawTriangles, h)>>
          /\ slices' = <<>>
     ELSE UNCHANGED <<modelData, slices>>
  /\ UNCHANGED <<res, file, status, progress, sliceMode, layerThickness,
                 layerCount, readers, runs, call, ret>>

\* lines 659, 663
setSliceMode(m) ==
  /\ m # sliceMode
  /\ sliceMode' = m
  /\ UNCHANGED <<res, file, status, progress, modelData, slices, targetHeight,
                 layerThickness, layerCount, readers, runs, call, ret>>

\* line 674; the input is rendered in thickness mode only (line 668)
setLayerThickness(t) ==
  /\ sliceMode = "thickness"
  /\ t # layerThickness
  /\ layerThickness' = t
  /\ UNCHANGED <<res, file, status, progress, modelData, slices, targetHeight,
                 sliceMode, layerCount, readers, runs, call, ret>>

\* line 685; the input is rendered in count mode only (line 668)
setLayerCount(c) ==
  /\ sliceMode = "count"
  /\ c # layerCount
  /\ layerCount' = c
  /\ UNCHANGED <<res, file, status, progress, modelData, slices, targetHeight,
                 sliceMode, layerThickness, readers, runs, call, ret>>

\* lines 222-232: the closure of one call of generateSlices: the modelData and
\* targetHeight of the render it belongs to, and its own constants and variables
NewRun ==
  LET actualThickness == ActualThickness(sliceMode, targetHeight, layerThickness, layerCount)
  IN  [modelData |-> modelData[1],
       targetHeight |-> targetHeight,
       actualThickness |-> actualThickness,
       actualCount |-> ActualCount(sliceMode, targetHeight, layerThickness, layerCount),
       newSlices |-> <<>>,
       currentLayer |-> 0]

\* line 235 with the test one layer early
RunDoneMut(r) == r.currentLayer + 1 >= r.actualCount

\* line 235: has the run computed all its layers
RunDone(r) == r.currentLayer >= r.actualCount

\* lines 242-252 with the plane of the next layer (currentLayer counted from 1)
NextLayerMut(r) ==
  [r EXCEPT !.newSlices = Append(@, LayerAt(r.modelData.triangles,
                                            LayerZ(r.actualThickness, r.currentLayer + 1))),
            !.currentLayer = @ + 1]

\* lines 242-252: the run after one more layer
NextLayer(r) ==
  [r EXCEPT !.newSlices = Append(@, LayerAt(r.modelData.triangles,
                                            LayerZ(r.actualThickness, r.currentLayer))),
            !.currentLayer = @ + 1]

\* lines 234-257: one call of processLayer for the run r; `ended` is runs without
\* r, `pending` is runs with NextLayer(r), the run whose timer line 256 has set
processLayer(r, ended, pending) ==
  IF RunDone(r)
  THEN /\ slices' = r.newSlices
       /\ status' = "Sliced " \o ToString(r.actualCount) \o " layers successfully."
       /\ progress' = 100
       /\ runs' = ended
  ELSE /\ progress' = Percent(r.currentLayer + 1, r.actualCount)
       /\ runs' = pending
       /\ UNCHANGED slices
       /\ status' = IF r.currentLayer = 0 THEN "Slicing geometry..." ELSE status

\* lines 222-260: a click on Generate Slices (line 693), enabled as line 694
\* says; lines 228-229 and the first call of processLayer (line 259) are one
\* event handler, so their state updates are rendered together. Only runs of
\* at most MaxLayers layers and runs of infinitely many are followed.
generateSlices ==
  /\ ~GenerateDisabled
  /\ modelData # Null
  /\ Len(readers) + Len(runs) < MaxPending
  /\ NewRun.actualCount <= MaxLayers \/ NewRun.actualCount = Infinity
  /\ processLayer(NewRun, runs, Append(runs, NextLayer(NewRun)))
  /\ UNCHANGED <<res, file, modelData, targetHeight, sliceMode, layerThickness,
                 layerCount, readers, call, ret>>

\* line 256: the timer of the i-th pending run fires; a run of infinitely many
\* layers is followed for its first MaxLayers + 1 layers
processLayerTimer(i) ==
  /\ i \in 1..Len(runs)
  /\ runs[i].currentLayer <= MaxLayers
  /\ processLayer(runs[i], RemoveAt(runs, i), [runs EXCEPT ![i] = NextLayer(runs[i])])
  /\ UNCHANGED <<res, file, modelData, targetHeight, sliceMode, layerThickness,
                 layerCount, readers, call, ret>>

Init ==
  /\ res = 1
  /\ InitSession
  /\ call = [fn |-> "none"]
  /\ ret = <<>>

Next ==
  \/ \E f \in Files : handleFileUpload(f)
  \/ \E i \in 1..MaxPending : onload(i)
  \/ \E h \in Heights : setTargetHeight(h)
  \/ \E m \in Modes : setSliceMode(m)
  \/ \E t \in Thicknesses : setLayerThickness(t)
  \/ \E c \in Counts : setLayerCount(c)
  \/ generateSlices
  \/ \E i \in 1..MaxPending : processLayerTimer(i)

Spec == Init /\ [][Next]_vars

\* ---------------------------------------------------------------- the component App, every setting
\* The settings inputs take every number (lines 674, 685: Number(e.target.value)),
\* 0 among them
ZeroThicknesses == {0, 4}

ZeroCounts == {0, 1}

\* a single triangle that stands on z = 0
Shard == << <<V(0, 0, 0), V(4, 0, 0), V(0, 0, 2)>> >>

\* one file that parses; what a run cuts has no part in whether it ends
ShardFiles == {[name |-> "shard.stl", buffer |-> BinarySTL(Shard, 1, 134)]}

NextSettings ==
  \/ \E f \in ShardFiles : handleFileUpload(f)
  \/ \E i \in 1..MaxPending : onload(i)
  \/ \E h \in Heights : setTargetHeight(h)
  \/ \E m \in Modes : setSliceMode(m)
  \/ \E t \in ZeroThicknesses : setLayerThickness(t)
  \/ \E c \in ZeroCounts : setLayerCount(c)
  \/ generateSlices
  \/ \E i \in 1..MaxPending : processLayerTimer(i)

SpecSettings == Init /\ [][NextSettings]_vars

\* ---------------------------------------------------------------- connectSegments alone
P(x, y) == [x |-> x, y |-> y]

Seg(a, b) == [p1 |-> a, p2 |-> b]

\* Points in ticks of 1/1000: the first two are 0.002 apart (squared distance
\* 4e-6 < 1e-5), every other pair is at least 0.018 apart
CyclePool == <<P(0, 0), P(2, 0), P(20, 0), P(20, 20), P(0, 20)>>

ListPool == {P(0, 0), P(2, 0), P(20, 0), P(0, 20)}

\* every list of at most MaxSegs segments with two different endpoints
SegLists ==
  LET segs == {Seg(a, b) : a, b \in ListPool} \ {Seg(a, a) : a \in ListPool}
  IN  UNION {[1..n -> segs] : n \in 0..MaxSegs}

\* the rings of n different points of CyclePool, one for each cycle (a cycle
\* read from another vertex or backwards is the same cycle)
Rings(n) ==
  {w \in [1..n -> 1..Len(CyclePool)] :
     /\ \A i, j \in 1..n : i # j => w[i] # w[j]
     /\ \A i \in 2..n : w[1] < w[i]
     /\ w[2] < w[n]}

\* the n edges of the cycle v[1], ..., v[n], v[1], listed in the order pi and
\* each given from its first (o[k]) or from its second endpoint
CycleOf(n, v, pi, o) ==
  [k \in 1..n |->
     LET a == CyclePool[v[pi[k]]]
         b == CyclePool[v[(pi[k] % n) + 1]]
     IN  IF o[k] THEN Seg(a, b) ELSE Seg(b, a)]

InitStitch ==
  /\ res = 1000
  /\ InitSession
  /\ \/ \E s \in SegLists : call = [fn |-> "connectSegments", segments |-> s]
     \/ \E n \in 3..MaxCycle :
          \E v \in Rings(n), pi \in Permutations(1..n), o \in [1..n -> BOOLEAN] :
            call = [fn |-> "connectSegments", segments |-> CycleOf(n, v, pi, o)]
  /\ ret = <<>>

callConnectSegments ==
  /\ call.fn = "connectSegments"
  /\ ret = <<>>
  /\ ret' = <<connectSegments(call.segments)>>
  /\ UNCHANGED <<res, call>>
  /\ UNCHANGED sessionVars

NextStitch == callConnectSegments

SpecStitch == InitStitch /\ [][NextStitch]_vars

\* ---------------------------------------------------------------- intersectTriangleZ alone
\* x and y are multiples of ZStep, so that every interpolation between heights
\* of 0..MaxZ is exact
ZStep == Factorial(MaxZ)

GridVertices ==
  {V(ZStep * i, ZStep * j, k) : i, j \in 0..MaxXY, k \in 0..MaxZ}

InitIntersect ==
  /\ res = 1000
  /\ InitSession
  /\ call \in {[fn |-> "intersectTriangleZ", v1 |-> a, v2 |-> b, v3 |-> c, z |-> z] :
                 a, b, c \in GridVertices, z \in 0..MaxZ}
  /\ ret = <<>>

callIntersectTriangleZ ==
  /\ call.fn = "intersectTriangleZ"
  /\ ret = <<>>
  /\ ret' = <<intersectTriangleZ(call.v1, call.v2, call.v3, call.z)>>
  /\ UNCHANGED <<res, call>>
  /\ UNCHANGED sessionVars

NextIntersect == callIntersectTriangleZ

SpecIntersect == InitIntersect /\ [][NextIntersect]_vars

\* ---------------------------------------------------------------- the plan of a run alone
\* lines 225-257 as a function of the settings and the mesh: the thickness, the
\* count, the plane heights and the layers of the run that generateSlices starts
RunResult(mode, height, thickness, count, triangles) ==
  LET actualThickness == ActualThickness(mode, height, thickness, count)
      actualCount == ActualCount(mode, height, thickness, count)
  IN  [actualThickness |-> actualThickness,
       actualCount |-> actualCount,
       z |-> [k \in 1..actualCount |-> LayerZ(actualThickness, k - 1)],
       newSlices |-> [k \in 1..actualCount |->
                        LayerAt(triangles, LayerZ(actualThickness, k - 1))]]

\* Heights and thicknesses in ticks of 1/2, so that half a thickness is exact:
\* every height H of 1..MaxModeHeight with every thickness T that divides it,
\* and the layer count H / T
InitModes ==
  /\ res = 2
  /\ InitSession
  /\ \E H \in 1..MaxModeHeight :
       \E T \in {d \in 1..H : H % d = 0} :
         call = [fn |-> "generateSlices", targetHeight |-> 2 * H,
                 layerThickness |-> 2 * T, layerCount |-> H \div T]
  /\ ret = <<>>

\* the run in thickness mode; layerCount is then the default of line 181
callThicknessMode ==
  /\ call.fn = "generateSlices"
  /\ ret = <<>>
  /\ ret' = <<RunResult("thickness", call.targetHeight, call.layerThickness, 25,
                        normalizeTriangles(Tetra, call.targetHeight).triangles)>>
  /\ UNCHANGED <<res, call>>
  /\ UNCHANGED sessionVars

\* the run in count mode; layerThickness is then the default of line 180
callCountMode ==
  /\ call.fn = "generateSlices"
  /\ Len(ret) = 1
  /\ ret' = Append(ret, RunResult("count", call.targetHeight, 4 * res, call.layerCount,
                                  normalizeTriangles(Tetra, call.targetHeight).triangles))
  /\ UNCHANGED <<res, call>>
  /\ UNCHANGED sessionVars

NextModes == callThicknessMode \/ callCountMode

SpecModes == InitModes /\ [][NextModes]_vars

\* ---------------------------------------------------------------- parseSTLBinary alone
\* the records of the buffers: the i-th holds the triangle (i,0,0), (0,i,0), (0,0,i)
ParseRecords == [i \in 1..MaxTris |-> <<V(i, 0, 0), V(0, i, 0), V(0, 0, i)>>]

\* every buffer of up to 84 + 50 * MaxTris bytes that holds (the bytes it has
\* of) a header and those records, with every declared count up to MaxTris + 1
InitParse ==
  /\ res = 1
  /\ InitSession
  /\ \E n \in 0..(MaxTris + 1), len \in 0..(84 + 50 * MaxTris) :
       call = [fn |-> "parseSTLBinary", buffer |-> BinarySTL(ParseRecords, n, len)]
  /\ ret = <<>>

callParseSTLBinary ==
  /\ call.fn = "parseSTLBinary"
  /\ ret = <<>>
  /\ ret' = <<parseSTLBinary(call.buffer)>>
  /\ UNCHANGED <<res, call>>
  /\ UNCHANGED sessionVars

NextParse == callParseSTLBinary

SpecParse == InitParse /\ [][NextParse]_vars

\* ---------------------------------------------------------------- normalizeTriangles alone
\* target heights for which every scaled coordinate of a grid mesh is exact
NormHeights == {2 * ZStep * k : k \in 1..2}

\* a second triangle that widens the bounding box to negative x and y, and a
\* flat one
ExtraTriangles ==
  {<<V(0 - ZStep, 0, 0), V(0, 0 - ZStep, 0), V(0, 0, MaxZ)>>,
   <<V(0 - ZStep, 0 - ZStep, 1), V(ZStep, 0, 1), V(0, ZStep, 1)>>}

\* the empty list, every triangle of the grid (those of no Z extent included),
\* and every such triangle followed by one of ExtraTriangles
InitNormalize ==
  /\ res = 1
  /\ InitSession
  /\ \E h \in NormHeights :
       \/ call = [fn |-> "normalizeTriangles", triangles |-> <<>>, targetHeight |-> h]
       \/ \E a, b, c \in GridVertices :
            \/ call = [fn |-> "normalizeTriangles", triangles |-> << <<a, b, c>> >>,
                       targetHeight |-> h]
            \/ \E u \in ExtraTriangles :
                 call = [fn |-> "normalizeTriangles", triangles |-> << <<a, b, c>>, u >>,
                         targetHeight |-> h]
  /\ ret = <<>>

callNormalizeTriangles ==
  /\ call.fn = "normalizeTriangles"
  /\ ret = <<>>
  /\ ret' = <<normalizeTriangles(call.triangles, call.targetHeight)>>
  /\ UNCHANGED <<res, call>>
  /\ UNCHANGED sessionVars

NextNormalize == callNormalizeTriangles

SpecNormalize == InitNormalize /\ [][NextNormalize]_vars

\* ---------------------------------------------------------------- one layer of a cube alone
\* the two triangles of the face with corners a, b, c, d (in ring order), split
\* along the diagonal a-c or along the diagonal b-d
FaceTriangles(a, b, c, d, alongAC) ==
  IF alongAC THEN << <<a, b, c>>, <<a, c, d>> >> ELSE << <<a, b, d>>, <<b, c, d>> >>

\* the 12 triangles of the cube of the given edge with its lowest corner at o:
\* bottom, top, front, back, left and right face, the f-th split as diag[f] says
CubeMesh(o, edge, diag) ==
  LET C(i, j, k) == V(o.x + i * edge, o.y + j * edge, o.z + k * edge)
  IN  FaceTriangles(C(0, 0, 0), C(1, 0, 0), C(1, 1, 0), C(0, 1, 0), diag[1])
      \o FaceTriangles(C(0, 0, 1), C(1, 0, 1), C(1, 1, 1), C(0, 1, 1), diag[2])
      \o FaceTriangles(C(0, 0, 0), C(1, 0, 0), C(1, 0, 1), C(0, 0, 1), diag[3])
      \o FaceTriangles(C(0, 1, 0), C(1, 1, 0), C(1, 1, 1), C(0, 1, 1), diag[4])
      \o FaceTriangles(C(0, 0, 0), C(0, 1, 0), C(0, 1, 1), C(0, 0, 1), diag[5])
      \o FaceTriangles(C(1, 0, 0), C(1, 1, 0), C(1, 1, 1), C(1, 0, 1), diag[6])

\* the list s read from its (r+1)-th element on, and then from its first
Rotate(s, r) == [k \in 1..Len(s) |-> s[((k - 1 + r) % Len(s)) + 1]]

\* Lengths in ticks of 1/1000: a cube of 10 x 10 x 10 units anywhere within
\* MaxShift units of the origin, its faces split either way and its triangles
\* listed from any of them on, to be normalized to height 10 and cut at z = 5
InitCube ==
  /\ res = 1000
  /\ InitSession
  /\ \E ox, oy, oz \in 0..MaxShift :
       \E diag \in [1..6 -> BOOLEAN], r \in 0..11 :
         call = [fn |-> "LayerAt",
                 triangles |-> Rotate(CubeMesh(V(ox * res, oy * res, oz * res),
                                               10 * res, diag), r),
                 targetHeight |-> 10 * res,
                 z |-> 5 * res]
  /\ ret = <<>>

\* normalizeTriangles (line 201), then one layer as processLayer computes it
\* (lines 243-249): the result of intersectTriangleZ for every triangle, and
\* the paths of connectSegments
callLayerAt ==
  /\ call.fn = "LayerAt"
  /\ ret = <<>>
  /\ LET normalized == normalizeTriangles(call.triangles, call.targetHeight)
     IN  ret' = <<[normalized |-> normalized,
                   cuts |-> [i \in 1..Len(normalized.triangles) |->
                               intersectTriangleZ(normalized.triangles[i][1],
                                                  normalized.triangles[i][2],
                                                  normalized.triangles[i][3], call.z)],
                   paths |-> LayerAt(normalized.triangles, call.z)]>>
  /\ UNCHANGED <<res, call>>
  /\ UNCHANGED sessionVars

NextCube == callLayerAt

SpecCube == InitCube /\ [][NextCube]_vars

\* ================================================================ claims
Stitched == call.fn = "connectSegments" /\ ret # <<>>

\* do two lists hold the same elements, each the same number of times
SameBag(a, b) ==
  /\ Len(a) = Len(b)
  /\ \A e \in Range(a) \cup Range(b) : Count(a, e) = Count(b, e)

\* the segments consumed by all the paths of connectSegments(segments)
Consumed(segments) ==
  LET chains == Chains(segments)
  IN  Concat([i \in 1..Len(chains) |-> chains[i].used])

\* C1: connectSegments partitions its input. The segments consumed by the
\* paths are, taken together, exactly the input segments, each as often as the
\* input holds it; every path has one point more than the segments it consumed
\* before it is closed, and the returned path has that many points, less the
\* one dropped when it is a closed loop.
C1_StitchPartitionsInput ==
  Stitched =>
    LET chains == Chains(call.segments)
    IN  /\ SameBag(Consumed(call.segments), call.segments)
        /\ Len(ret[1]) = Len(chains)
        /\ \A i \in 1..Len(chains) :
             /\ Len(chains[i].path) = Len(chains[i].used) + 1
             /\ Len(ret[1][i]) =
                  Len(chains[i].used) + 1 - (IF IsLoop(chains[i].path) THEN 1 ELSE 0)

\* C1 witness: a list stitched into two paths, one of them a chain of two segments
C1_Witness ==
  /\ Stitched
  /\ Len(ret[1]) = 2
  /\ \E i \in 1..2 : Len(Chains(call.segments)[i].used) = 2

\* the timer step in which the i-th pending run publishes its result
Publishes(i) ==
  /\ i \in 1..Len(runs)
  /\ RunDone(runs[i])
  /\ processLayerTimer(i)

\* C2 as stated: a target-height change cancels the run in flight, so no run
\* publishes its layers once the target height is no longer the one it was
\* started with.
C2_HeightChangeCancelsRun ==
  [][\A i \in 1..MaxPending : Publishes(i) => runs[i].targetHeight = targetHeight]_vars

\* C3 as stated: at most one slicing run is in flight at any time.
C3_AtMostOneRunInFlight == Len(runs) <= 1

\* C4: no partial result is exposed. Every step that changes the slice result
\* either empties it or sets it, whole, to the layer list of a run that has
\* computed all its layers, which has exactly that run's layer count.
C4_NoPartialResult ==
  [][slices' # slices =>
       \/ slices' = <<>>
       \/ \E i \in 1..Len(runs) :
            /\ Publishes(i)
            /\ slices' = runs[i].newSlices
            /\ Len(slices') = runs[i].actualCount]_vars

\* C4 witness: a complete result of two layers is published while another run
\* holds a proper prefix of its own layers
C4_Witness ==
  /\ Len(slices) = 2
  /\ \E i \in 1..Len(runs) :
       /\ runs[i].currentLayer > 0
       /\ runs[i].currentLayer < runs[i].actualCount
       /\ Len(runs[i].newSlices) = runs[i].currentLayer

\* C5 as stated: a normalized mesh that is held has the current target height.
C5_MeshHasTargetHeight ==
  modelData # Null => modelData[1].height = targetHeight

\* C6 as stated: a target-height change on a loaded model empties the slice
\* result, and the result then stays empty until a new run (one started with
\* the target height that is now current) finishes and sets it whole.
C6_StaleResultDiscarded ==
  [][/\ (targetHeight' # targetHeight /\ modelData # Null) => slices' = <<>>
     /\ (slices = <<>> /\ slices' # <<>>) =>
          \E i \in 1..Len(runs) :
            /\ Publishes(i)
            /\ slices' = runs[i].newSlices
            /\ runs[i].targetHeight = targetHeight]_vars

\* the layers a finished run must publish: for k = 0 .. count-1 the stitch of
\* the non-null intersections of the run's mesh with z_k = thickness/2 + k*thickness
ExpectedSlices(r) ==
  [n \in 1..r.actualCount |->
     connectSegments(SegmentsAt(r.modelData.triangles,
                                (r.actualThickness \div 2) + (n - 1) * r.actualThickness))]

\* C7: when a run finishes, the published result has exactly count layers and
\* its k-th entry is the stitch of the intersections of every triangle of the
\* normalized mesh the run was started on with the plane z_k, in ascending k;
\* a run of no layers publishes the empty result at once.
C7_PublishedLayers ==
  [][/\ \A i \in 1..MaxPending :
          Publishes(i) => /\ Len(slices') = runs[i].actualCount
                          /\ slices' = ExpectedSlices(runs[i])
     /\ (generateSlices /\ NewRun.actualCount = 0) => slices' = <<>>]_vars

\* C7 witness: a published result of two different layers, the lower one not empty
C7_Witness ==
  /\ Len(slices) = 2
  /\ slices[1] # <<>>
  /\ slices[1] # slices[2]
  /\ runs = <<>>

\* C8: the two modes are equivalent. For every height and every thickness that
\* divides it, the run in thickness mode and the run in count mode with
\* count = height / thickness have the same thickness, the same count, the same
\* plane heights and, on the same mesh, the same layers; height 100 with
\* thickness 4 gives 25 layers and height 100 with count 25 gives thickness 4.
C8_ModesEquivalent ==
  (call.fn = "generateSlices" /\ Len(ret) = 2) =>
    /\ ret[1] = ret[2]
    /\ ret[1].actualCount = call.targetHeight \div call.layerThickness
    /\ ret[2].actualThickness * call.layerCount = call.targetHeight
    /\ \A k \in 1..ret[1].actualCount :
         2 * ret[1].z[k] = (2 * k - 1) * call.layerThickness
    /\ (call.targetHeight = 100 * res /\ call.layerThickness = 4 * res) =>
         (ret[1].actualCount = 25 /\ ret[2].actualThickness = 4 * res)

\* C8 witness: height 100 was planned with thickness 4 and with count 25
C8_Witness ==
  /\ call.fn = "generateSlices"
  /\ Len(ret) = 2
  /\ call.targetHeight = 100 * res
  /\ call.layerThickness = 4 * res
  /\ call.layerCount = 25
  /\ Len(ret[2].newSlices) = 25

Intersected == call.fn = "intersectTriangleZ" /\ ret # <<>>

\* min Z < z < max Z over the three vertices of the call
StrictlySpans ==
  LET zs == {call.v1.z, call.v2.z, call.v3.z}
  IN  Min(zs) < call.z /\ call.z < Max(zs)

\* the three vertices lie on one line (a triangle of no area)
Collinear(a, b, c) ==
  LET ux == b.x - a.x  uy == b.y - a.y  uz == b.z - a.z
      wx == c.x - a.x  wy == c.y - a.y  wz == c.z - a.z
  IN  /\ uy * wz - uz * wy = 0
      /\ uz * wx - ux * wz = 0
      /\ ux * wy - uy * wx = 0

\* C9 as stated: every triangle that strictly spans z gives exactly one segment
\* with two distinct endpoints.
C9_SpanningGivesSegment ==
  (Intersected /\ StrictlySpans) =>
    /\ Len(ret[1]) = 1
    /\ ret[1][1].p1 # ret[1][1].p2

\* C9 amended: a triangle that strictly spans z gives no segment when its
\* vertices are collinear (the two crossing points then coincide, so they are
\* less than 1e-5 apart on both axes), and otherwise (its crossing points are
\* 1e-5 or more apart on some axis) it gives exactly one segment, whose two
\* endpoints are distinct.
C9_SpanningGivesSegmentUnlessGraze ==
  (Intersected /\ StrictlySpans) =>
    IF Collinear(call.v1, call.v2, call.v3)
    THEN ret[1] = Null
    ELSE /\ Len(ret[1]) = 1
         /\ ret[1][1].p1 # ret[1][1].p2
         /\ ~IsGraze(ret[1][1].p1, ret[1][1].p2)

\* C9 witness: a spanning triangle of positive area was cut into a segment by
\* the upper short edge (the plane lies above the middle vertex)
C9_Witness ==
  /\ Intersected
  /\ StrictlySpans
  /\ ~Collinear(call.v1, call.v2, call.v3)
  /\ call.z > SortByZ(call.v1, call.v2, call.v3)[2].z
  /\ Len(ret[1]) = 1

\* the end points of a list of segments
EndPoints(segments) ==
  {segments[i].p1 : i \in 1..Len(segments)} \cup {segments[i].p2 : i \in 1..Len(segments)}

RECURSIVE Reach(_, _, _)
\* the points joined to those of S by at most n segments
Reach(S, segments, n) ==
  IF n = 0 THEN S
  ELSE Reach(S \cup {segments[i].p2 : i \in {j \in 1..Len(segments) : segments[j].p1 \in S}}
               \cup {segments[i].p1 : i \in {j \in 1..Len(segments) : segments[j].p2 \in S}},
             segments, n - 1)

\* n >= 3 segments that form one simple closed cycle: every end point belongs
\* to exactly two of them, and they hang together
IsSimpleCycle(segments) ==
  /\ Len(segments) >= 3
  /\ \A i \in 1..Len(segments) : segments[i].p1 # segments[i].p2
  /\ \A p \in EndPoints(segments) :
       Cardinality({i \in 1..Len(segments) : p \in {segments[i].p1, segments[i].p2}}) = 2
  /\ Reach({segments[1].p1}, segments, Len(segments)) = EndPoints(segments)

\* no two different end points are within the tolerance of each other
WellSeparated(segments) ==
  \A p, q \in EndPoints(segments) : p # q => ~Near(p, q)

\* connectSegments returned one path, closed, of n points
OneClosedPathOf(n) ==
  /\ Len(ret[1]) = 1
  /\ Len(ret[1][1]) = n
  /\ IsLoop(Chains(call.segments)[1].path)

\* C10 as stated: any simple closed cycle of n >= 3 segments, in any order and
\* orientation, is stitched into exactly one closed path of n points.
C10_CycleGivesOneClosedPath ==
  (Stitched /\ IsSimpleCycle(call.segments)) => OneClosedPathOf(Len(call.segments))

\* C10 amended: any simple closed cycle of n >= 3 segments whose different
\* vertices are pairwise at squared distance 1e-5 or more, in any order and
\* orientation, is stitched into exactly one closed path of n points.
C10_SeparatedCycleGivesOneClosedPath ==
  (Stitched /\ IsSimpleCycle(call.segments) /\ WellSeparated(call.segments)) =>
    OneClosedPathOf(Len(call.segments))

\* C10 witness: a well separated cycle of four segments, not listed in chain
\* order, was stitched
C10_Witness ==
  /\ Stitched
  /\ IsSimpleCycle(call.segments)
  /\ WellSeparated(call.segments)
  /\ Len(call.segments) = 4
  /\ ~Matches(call.segments[3], call.segments[4].p1, call.segments[4].p2)
  /\ OneClosedPathOf(4)

\* the segments still in `remaining` when the i-th path was finished: those
\* the later paths consumed
RemainingAfter(chains, i) ==
  Concat([j \in 1..(Len(chains) - i) |-> chains[i + j].used])

\* the first and last points of the path are within squared distance 1e-5
FirstMeetsLast(path) == LessThanEpsilon(getDistSq(path[1], path[Len(path)]))

\* the i-th returned path against the i-th path as it was when finished:
\* closed (its terminal point dropped) or open (all its points kept)
ReturnedClosed(i) ==
  LET path == Chains(call.segments)[i].path
  IN  ret[1][i] = SubSeq(path, 1, Len(path) - 1)

ReturnedOpen(i) == ret[1][i] = Chains(call.segments)[i].path

\* C11 as stated: a finished path is closed, and loses its terminal point,
\* exactly when its first and last points are within squared distance 1e-5 of
\* each other; otherwise it is open and keeps all its points.
C11_ClosedIffEndsMeet ==
  Stitched =>
    \A i \in 1..Len(ret[1]) :
      IF FirstMeetsLast(Chains(call.segments)[i].path)
      THEN ReturnedClosed(i)
      ELSE ReturnedOpen(i)

\* C11 amended: a finished path is closed, and loses its terminal point,
\* exactly when it has more than two points and its first and last points are
\* within squared distance 1e-5 of each other; otherwise (a path of two points
\* included, however close they are) it keeps all its points. A path is
\* finished only when no remaining segment has an endpoint within the
\* tolerance of its head or tail.
C11_ClosedIffLongAndEndsMeet ==
  Stitched =>
    LET chains == Chains(call.segments)
    IN  \A i \in 1..Len(ret[1]) :
          LET path == chains[i].path
              left == RemainingAfter(chains, i)
          IN  /\ IF Len(path) > 2 /\ FirstMeetsLast(path)
                 THEN ReturnedClosed(i) /\ ~ReturnedOpen(i)
                 ELSE ReturnedOpen(i) /\ ~ReturnedClosed(i)
              /\ \A k \in 1..Len(left) :
                   \A p \in {left[k].p1, left[k].p2} :
                     /\ ~LessThanEpsilon(getDistSq(p, path[1]))
                     /\ ~LessThanEpsilon(getDistSq(p, path[Len(path)]))

\* C11 witness: the stitch returned a closed path that lost a terminal point
\* within the tolerance of, but different from, its first point, and an open
\* path whose ends are apart
C11_Witness ==
  /\ Stitched
  /\ \E i, j \in 1..Len(ret[1]) :
       LET chains == Chains(call.segments)
       IN  /\ ~FirstMeetsLast(chains[i].path)
           /\ ReturnedOpen(i)
           /\ Len(chains[j].path) > 2
           /\ chains[j].path[1] # chains[j].path[Len(chains[j].path)]
           /\ ReturnedClosed(j)

CubeSliced == call.fn = "LayerAt" /\ ret # <<>>

\* is the point on the boundary of the square with corners (+-h, +-h)
OnSquare(p, h) ==
  \/ Abs(p.x) = h /\ Abs(p.y) <= h
  \/ Abs(p.y) = h /\ Abs(p.x) <= h

\* do the two points lie on one side of that square
OnOneSide(p, q, h) ==
  \/ p.x = q.x /\ Abs(p.x) = h /\ Abs(p.y) <= h /\ Abs(q.y) <= h
  \/ p.y = q.y /\ Abs(p.y) = h /\ Abs(p.x) <= h /\ Abs(q.x) <= h

\* C12: the cube scenario. A 12-triangle cube of 10 x 10 x 10, normalized to
\* height 10 and cut at z = 5, gives exactly one path; the path is closed (its
\* chain ended where it began and lost that terminal point); it passes through
\* the four corners (+-5, +-5), all its points lie on the boundary of that
\* square and every two successive points, the last and the first included, lie
\* on one side of it; the four triangles of the top and bottom faces give no
\* segment and each of the eight others gives one.
C12_CubeGivesOneClosedSquare ==
  CubeSliced =>
    LET out == ret[1]
        h == 5 * res
        flat == {i \in 1..12 : out.normalized.triangles[i][1].z = out.normalized.triangles[i][2].z
                               /\ out.normalized.triangles[i][2].z = out.normalized.triangles[i][3].z}
        chain == Chains(Concat(out.cuts))[1].path
    IN  /\ Len(out.normalized.triangles) = 12
        /\ out.normalized.height = 10 * res
        /\ Len(out.paths) = 1
        /\ Len(chain) > 2
        /\ FirstMeetsLast(chain)
        /\ out.paths[1] = SubSeq(chain, 1, Len(chain) - 1)
        /\ \A sx, sy \in {h, 0 - h} : P(sx, sy) \in Range(out.paths[1])
        /\ \A p \in Range(out.paths[1]) : OnSquare(p, h)
        /\ \A k \in 1..Len(out.paths[1]) :
             OnOneSide(out.paths[1][k], out.paths[1][(k % Len(out.paths[1])) + 1], h)
        /\ Cardinality(flat) = 4
        /\ \A i \in 1..12 : (i \in flat) <=> (out.cuts[i] = Null)

\* C12 witness: a cube that does not stand at the origin was cut into a closed
\* path of eight points, the corners and the four crossings of the diagonals
C12_Witness ==
  /\ CubeSliced
  /\ V(0, 0, 0) \notin Vertices(call.triangles)
  /\ Len(ret[1].paths) = 1
  /\ Len(ret[1].paths[1]) = 8
  /\ P(5 * res, 0 - 5 * res) \in Range(ret[1].paths[1])
  /\ P(0, 5 * res) \in Range(ret[1].paths[1])

\* normalizeTriangles has returned a mesh
Normalized == call.fn = "normalizeTriangles" /\ ret # <<>>

\* maxZ - minZ over the vertices of the list; the empty list has no Z extent
ZExtent(triangles) ==
  IF triangles = <<>> THEN 0
  ELSE Max({v.z : v \in Vertices(triangles)}) - Min({v.z : v \in Vertices(triangles)})

\* C13: for every target height H > 0 and every mesh of non-zero Z extent,
\* normalizeTriangles scales the three axes by the one factor H / rawHeight
\* (the difference of two vertices on any axis is multiplied by it) and returns
\* triangles whose least z is 0 and greatest z is H and whose x and y ranges
\* are centred on 0, with height = H and with width and length the scaled X
\* and Y extents, which are not negative.
C13_NormalizeScalesAndCentres ==
  (Normalized /\ call.targetHeight > 0 /\ ZExtent(call.triangles) # 0) =>
    LET H == call.targetHeight
        rawHeight == ZExtent(call.triangles)
        in == call.triangles
        out == ret[1].triangles
        vs == Vertices(out)
        raw == Vertices(in)
    IN  /\ Len(out) = Len(in)
        /\ \A i \in 1..Len(in), j \in 1..3, k \in 1..Len(in), l \in 1..3 :
             /\ (out[i][j].x - out[k][l].x) * rawHeight = (in[i][j].x - in[k][l].x) * H
             /\ (out[i][j].y - out[k][l].y) * rawHeight = (in[i][j].y - in[k][l].y) * H
             /\ (out[i][j].z - out[k][l].z) * rawHeight = (in[i][j].z - in[k][l].z) * H
        /\ Min({v.z : v \in vs}) = 0
        /\ Max({v.z : v \in vs}) = H
        /\ Min({v.x : v \in vs}) + Max({v.x : v \in vs}) = 0
        /\ Min({v.y : v \in vs}) + Max({v.y : v \in vs}) = 0
        /\ ret[1].height = H
        /\ ret[1].width >= 0
        /\ ret[1].length >= 0
        /\ ret[1].width = Max({v.x : v \in vs}) - Min({v.x : v \in vs})
        /\ ret[1].length = Max({v.y : v \in vs}) - Min({v.y : v \in vs})
        /\ ret[1].width * rawHeight = (Max({v.x : v \in raw}) - Min({v.x : v \in raw})) * H
        /\ ret[1].length * rawHeight = (Max({v.y : v \in raw}) - Min({v.y : v \in raw})) * H

\* C13 witness: a mesh of two triangles that does not stand on z = 0 and has a
\* positive width was scaled by a factor other than 1
C13_Witness ==
  /\ Normalized
  /\ Len(call.triangles) = 2
  /\ Min({v.z : v \in Vertices(call.triangles)}) > 0
  /\ ZExtent(call.triangles) \notin {0, call.targetHeight}
  /\ ret[1].width > 0
  /\ \E v, w \in Vertices(ret[1].triangles) :
       v.x > 0 /\ v.z = call.targetHeight /\ w.x < 0 /\ w.z = 0

\* C14 as stated: normalizing a mesh of no Z extent (the empty list included)
\* fails with an error, so that no normalized mesh is ever returned for it.
C14_DegenerateMeshFails ==
  ~(Normalized /\ ZExtent(call.triangles) = 0)

\* parseSTLBinary has returned or thrown
Parsed == call.fn = "parseSTLBinary" /\ ret # <<>>

\* C15 as stated: for a binary buffer that is shorter than its declared count
\* needs (84 + count * 50 > buffer length), parseSTLBinary raises an error and
\* returns no triangles, not even those whose records are fully present.
C15_TruncatedBufferFails ==
  (Parsed /\ 84 + call.buffer.numTriangles * 50 > call.buffer.byteLength) =>
    /\ ret[1].threw
    /\ ret[1].triangles = <<>>

\* C16 as stated: a run started on one model never publishes its layers after
\* a newly loaded file has replaced that model: at every publishing step the
\* raw mesh the run was started on is the raw mesh the session holds.
C16_NoResultOfReplacedModel ==
  [][\A i \in 1..MaxPending :
       Publishes(i) => runs[i].modelData.rawTriangles = modelData[1].rawTriangles]_vars

\* the timer steps a run in flight still needs before it publishes: one for
\* each layer it has not computed yet, and the one in which line 235 holds
StepsLeft(r) == (r.actualCount - r.currentLayer) + 1

\* C17 as stated: every started run finishes after finitely many timer steps.
\* Every run in flight has a finite layer count, and so a finite number of
\* timer steps left (at most MaxLayers + 1 for the runs that are followed),
\* after which line 235 holds and the run publishes and sets progress to 100.
C17_EveryRunFinishes ==
  \A i \in 1..Len(runs) :
    /\ runs[i].actualCount \notin {Infinity, NaN}
    /\ StepsLeft(runs[i]) \in 1..(MaxLayers + 1)

\* the vertices of the call that lie in the plane z
InPlane == {v \in {call.v1, call.v2, call.v3} : v.z = call.z}

\* the vertices of the call that lie off it
OffPlane == {v \in {call.v1, call.v2, call.v3} : v.z # call.z}

\* exactly two vertices lie in the plane, at least 1e-5 apart in x or in y,
\* and the third lies strictly off it
TwoInPlane ==
  /\ Cardinality({k \in 1..3 : <<call.v1, call.v2, call.v3>>[k].z = call.z}) = 2
  /\ Cardinality(InPlane) = 2
  /\ \E a, b \in InPlane :
       ~LessThanGraze(Abs(a.x - b.x)) \/ ~LessThanGraze(Abs(a.y - b.y))

\* the result is one segment, and it joins the two vertices in the plane
JoinsInPlane ==
  /\ Len(ret[1]) = 1
  /\ {ret[1][1].p1, ret[1][1].p2} = {P(v.x, v.y) : v \in InPlane}

\* C18 as stated: for a triangle with exactly two vertices at height z (at
\* least 1e-5 apart in x or y) and the third strictly off the plane, the
\* result is the segment that joins the two vertices in the plane, whether the
\* third vertex lies above the plane or below it.
C18_InPlaneEdgeGivesSegment ==
  (Intersected /\ TwoInPlane) => JoinsInPlane

\* C18 amended: for such a triangle the result is the segment that joins the
\* two vertices in the plane when the third vertex lies below the plane, and
\* none when the third vertex lies above it (both crossing points are then
\* the same in-plane vertex, the one that comes first in the arguments); so
\* reflecting the triangle in z changes the result.
C18_InPlaneEdgeGivesSegmentFromBelow ==
  (Intersected /\ TwoInPlane) =>
    IF \A v \in OffPlane : v.z < call.z
    THEN JoinsInPlane
    ELSE ret[1] = Null

\* C18 witness: a triangle whose second vertex lies below the plane of the
\* other two was cut into the segment that joins those two
C18_Witness ==
  /\ Intersected
  /\ TwoInPlane
  /\ call.v2.z < call.z
  /\ call.v1.x # call.v3.x
  /\ call.v1.y # call.v3.y
  /\ JoinsInPlane

\* reader.onload of the i-th pending reader runs and parseSTL throws in it
FailedLoad(i) ==
  /\ i \in 1..Len(readers)
  /\ parseSTL(readers[i].buffer).threw
  /\ onload(i)

\* C19 as stated: a failed load leaves the session as it was. When parsing the
\* uploaded buffer throws, the held raw mesh, the normalized mesh and the slice
\* result are left alone, the loaded-file name is the one from before the load
\* was requested, and only the status message changes.
C19_FailedLoadChangesOnlyStatus ==
  [][\A i \in 1..MaxPending :
       FailedLoad(i) =>
         /\ modelData' = modelData
         /\ slices' = slices
         /\ file' = readers[i].file]_vars

====
